---- MODULE Spec2Model ----
(***************************************************************************)
(* Model of the image gallery server (src/app/public/src/main.js):        *)
(* the multer upload middleware configured with disk storage, a file      *)
(* filter and a size limit, the POST /upload handler, the GET /api/images *)
(* handler, GET /health and the delayed readiness probe.                  *)
(*                                                                         *)
(* Requests are handled concurrently: every await / stream callback of a  *)
(* request is a point where another request may run.  An upload therefore *)
(* takes several steps (filter and file naming, streaming to disk,        *)
(* removal of an aborted file, the route handler); each step is one       *)
(* action.  Strings that the code builds (file names, locations) are      *)
(* sequences of one-character strings.                                    *)
(***************************************************************************)
EXTENDS Integers, Sequences, FiniteSets, TLC

VARIABLES now, reqs, disk, records, lastResp, probe

vars == <<now, reqs, disk, records, lastResp, probe>>

-----------------------------------------------------------------------------
(* Bounds of the model *)

\* number of POST /upload requests that may be in flight or completed
NumReqs == 2

\* last value of the millisecond clock (the clock starts at 0)
MaxClock == 1

-----------------------------------------------------------------------------
(* Program constants *)

MAX_FILE_SIZE == 10 * 1024 * 1024

\* Math.round(Math.random() * 1E9) lies in 0 .. 1E9
MaxRandom == 1000000000

allowedTypes == {"image/jpeg", "image/jpg", "image/png", "image/gif"}

\* the mount segment of the handler's template `/uploads/${...}`
UploadsPrefix == <<"/", "u", "p", "l", "o", "a", "d", "s", "/">>

-----------------------------------------------------------------------------
(* Inputs *)

\* values Math.random() may round to; both ends of the range
RandomDraws == {0, MaxRandom}

\* The multipart file parts a client sends: client file name, declared
\* content type, number of bytes of the body, and the body itself.
ClientFiles ==
  { [present |-> TRUE, originalname |-> <<"c","a","t",".","p","n","g">>,
     mimetype |-> "image/png", size |-> 5 * 1024 * 1024, bytes |-> "catBytes"],
    [present |-> TRUE, originalname |-> <<"b",".","i","g",".","p","n","g">>,
     mimetype |-> "image/gif", size |-> MAX_FILE_SIZE + 1, bytes |-> "bigBytes"],
    [present |-> TRUE, originalname |-> <<"n","o","t","e","s",".","t","x","t">>,
     mimetype |-> "text/plain", size |-> 5 * 1024 * 1024, bytes |-> "notesBytes"],
    [present |-> TRUE, originalname |-> <<"h","u","g","e",".">>,
     mimetype |-> "", size |-> MAX_FILE_SIZE + 1, bytes |-> "hugeBytes"] }

\* a request without a file part in the field 'image'
NoFile ==
  [present |-> FALSE, originalname |-> <<>>, mimetype |-> "", size |-> 0,
   bytes |-> "none"]

\* messages of the errors the PocketBase client throws
StoreErrors == {"Failed to create record."}

\* messages of the errors a failing disk write gives
DiskErrors == {"ENOSPC"}

-----------------------------------------------------------------------------
(* Pure functions *)

Digit(d) == <<"0","1","2","3","4","5","6","7","8","9">>[d + 1]

\* Number -> decimal string, as the `+` of a number and a string does
RECURSIVE NumberToString(_)
NumberToString(n) ==
  IF n < 10 THEN <<Digit(n)>>
  ELSE NumberToString(n \div 10) \o <<Digit(n % 10)>>

MaxOf(S) == CHOOSE x \in S : \A y \in S : y <= x

\* path.extname of a name without directory separators: the part from the
\* last "." on; empty if there is no ".", if the only "." is the first
\* character, or if the name is "..".
extname(name) ==
  LET dots == {i \in 1..Len(name) : name[i] = "."} IN
  IF dots = {} THEN <<>>
  ELSE LET startDot == MaxOf(dots) IN
       IF startDot = 1 THEN <<>>
       ELSE IF name = <<".", ".">> THEN <<>>
       ELSE SubSeq(name, startDot, Len(name))

\* storage.filename: Date.now() + '-' + Math.round(Math.random()*1E9) + ext
filename(ts, rnd, originalname) ==
  NumberToString(ts) \o <<"-">> \o NumberToString(rnd) \o extname(originalname)

\* a filter that lets every declared type through
fileFilterAcceptsAll(file) == TRUE

\* fileFilter: TRUE when the file is accepted
fileFilter(file) == file.mimetype \in allowedTypes

\* the handler's filePath
filePath(fname) == UploadsPrefix \o fname

-----------------------------------------------------------------------------
(* State *)

\* now      the millisecond clock Date.now() reads
\* reqs     the POST /upload requests: where each one is, and the file part
\*          and storage name it carries while it is in flight
\* disk     the files of UPLOAD_DIR
\* records  the images collection of the store, in the order of creation
\* lastResp what the step just taken wrote: the response of the request it
\*          completed (with the file part and storage name of that request,
\*          and the message of the error the store threw, if it threw)
\*          or the line the readiness probe logged; NoOutput after a step
\*          that wrote nothing
\* probe    whether the readiness probe is still pending

NoBody == [none |-> TRUE]

NoOutput ==
  [endpoint |-> "", req |-> 0, file |-> NoFile, filename |-> <<>>,
   status |-> 0, body |-> NoBody, list |-> <<>>, thrown |-> ""]

IdleReq == [pc |-> "idle", file |-> NoFile, filename |-> <<>>]

DoneReq == [pc |-> "done", file |-> NoFile, filename |-> <<>>]

Reqs == 1..NumReqs

Init ==
  /\ now = 0
  /\ reqs = [r \in Reqs |-> IdleReq]
  /\ disk = {}
  /\ records = <<>>
  /\ lastResp = NoOutput
  /\ probe = "pending"

\* disk is a set of directory entries, at most one per name; writer
\* remembers the request whose stream wrote the entry
\* fs.createWriteStream(finalPath) followed by the piped bytes: the entry
\* of that name is replaced
writeFile(d, name, r, bytes, len) ==
  {e \in d : e.name # name}
    \cup {[name |-> name, writer |-> r, bytes |-> bytes, len |-> len]}

\* fs.unlink(path)
unlink(d, name) == {e \in d : e.name # name}

\* Express's final handler for an error passed to next(err): the error has
\* no status, so the status is 500, and the body is an HTML page, not JSON
finalhandler(msg) == [status |-> 500, body |-> [html |-> msg]]

\* the next request of the model arrives: requests are numbered in the
\* order in which multer starts on them
Arrives(r) ==
  /\ reqs[r].pc = "idle"
  /\ r > 1 => reqs[r - 1].pc # "idle"

\* the response of request r is written and the request is over
Respond(r, file, fname, resp, thrown) ==
  /\ reqs' = [reqs EXCEPT ![r] = DoneReq]
  /\ lastResp' = [endpoint |-> "/upload", req |-> r, file |-> file,
                  filename |-> fname, status |-> resp.status,
                  body |-> resp.body, list |-> <<>>, thrown |-> thrown]

-----------------------------------------------------------------------------
(* POST /upload *)

\* the handler's answer when req.file is not set
noFileResponse == [status |-> 400, body |-> [error |-> "No file uploaded"]]

\* no file part 'image': multer leaves req.file undefined and the handler
\* answers 400
NoFileUploaded(r) ==
  /\ Arrives(r)
  /\ Respond(r, NoFile, <<>>, noFileResponse, "")
  /\ UNCHANGED <<now, disk, records, probe>>

\* multer calls fileFilter before the storage engine; a rejection is passed
\* to next(err), the route handler does not run
FilterReject(r) ==
  /\ Arrives(r)
  /\ \E f \in ClientFiles :
       /\ ~fileFilter(f)
       /\ Respond(r, f, <<>>,
            finalhandler("Invalid file type. Only JPG, PNG, and GIF are allowed."),
            "")
  /\ UNCHANGED <<now, disk, records, probe>>

\* the file is accepted: the storage engine names it and starts streaming
FilterAccept(r) ==
  /\ Arrives(r)
  /\ \E f \in ClientFiles, rnd \in RandomDraws :
       /\ fileFilter(f)
       /\ reqs' = [reqs EXCEPT ![r] =
                     [pc |-> "streaming", file |-> f,
                      filename |-> filename(now, rnd, f.originalname)]]
  /\ lastResp' = NoOutput
  /\ UNCHANGED <<now, disk, records, probe>>

\* a limit of 100MB in place of 10MB
OverLimitTenfold(size) == size > 100 * 1024 * 1024

\* limits.fileSize: the stream is cut when the body is longer than the limit
OverLimit(size) == size > MAX_FILE_SIZE

\* the body was streamed to disk in full
StreamDone(r) ==
  /\ reqs[r].pc = "streaming"
  /\ ~OverLimit(reqs[r].file.size)
  /\ disk' = writeFile(disk, reqs[r].filename, r, reqs[r].file.bytes,
                       reqs[r].file.size)
  /\ reqs' = [reqs EXCEPT ![r].pc = "stored"]
  /\ lastResp' = NoOutput
  /\ UNCHANGED <<now, records, probe>>

\* the stream hit the limit: the truncated file is on disk, multer aborts
StreamLimit(r) ==
  /\ reqs[r].pc = "streaming"
  /\ OverLimit(reqs[r].file.size)
  /\ disk' = writeFile(disk, reqs[r].filename, r, reqs[r].file.bytes,
                       MAX_FILE_SIZE)
  /\ reqs' = [reqs EXCEPT ![r].pc = "aborting"]
  /\ lastResp' = NoOutput
  /\ UNCHANGED <<now, records, probe>>

\* the write stream fails: an empty file or no file is left, the error is
\* passed to next(err)
StreamError(r) ==
  /\ reqs[r].pc = "streaming"
  /\ \E msg \in DiskErrors, opened \in BOOLEAN :
       /\ disk' = IF opened
                  THEN writeFile(disk, reqs[r].filename, r, reqs[r].file.bytes, 0)
                  ELSE disk
       /\ Respond(r, reqs[r].file, reqs[r].filename, finalhandler(msg), "")
  /\ UNCHANGED <<now, records, probe>>

\* multer removes the file of the aborted upload and passes
\* MulterError LIMIT_FILE_SIZE to next(err)
RemoveUploaded(r) ==
  /\ reqs[r].pc = "aborting"
  /\ disk' = unlink(disk, reqs[r].filename)
  /\ Respond(r, reqs[r].file, reqs[r].filename, finalhandler("File too large"),
             "")
  /\ UNCHANGED <<now, records, probe>>

\* the handler's imageData
imageData(r) ==
  [name |-> reqs[r].file.originalname,
   location |-> filePath(reqs[r].filename),
   mime_type |-> reqs[r].file.mimetype]

\* the record pb.collection('images').create(data) stores and returns
create(data) ==
  [id |-> Len(records) + 1, name |-> data.name, location |-> data.location,
   mime_type |-> data.mime_type, created |-> now, updated |-> now]

\* the handler's answer to a stored upload
uploadSuccess(record) ==
  [status |-> 200,
   body |-> [success |-> TRUE, message |-> "Image uploaded successfully",
             data |-> record]]

\* the route handler with req.file set, create succeeds
UploadOk(r) ==
  /\ reqs[r].pc = "stored"
  /\ LET record == create(imageData(r)) IN
       /\ records' = Append(records, record)
       /\ Respond(r, reqs[r].file, reqs[r].filename, uploadSuccess(record), "")
  /\ UNCHANGED <<now, disk, probe>>

\* the catch block of the handler
uploadCatch(msg) ==
  [status |-> 500, body |-> [error |-> "Failed to upload image", message |-> msg]]

\* a catch block that removes the uploaded file
catchDiskRollsBack(d, fname) == unlink(d, fname)

\* what the catch block does to the upload directory: nothing
catchDisk(d, fname) == d

\* a handler whose create stores the record and whose answer then fails
UploadFailAfterCreate(r) ==
  /\ reqs[r].pc = "stored"
  /\ \E msg \in StoreErrors :
       Respond(r, reqs[r].file, reqs[r].filename, uploadCatch(msg), msg)
  /\ records' = Append(records, create(imageData(r)))
  /\ UNCHANGED <<now, disk, probe>>

\* the route handler with req.file set, create throws
UploadFail(r) ==
  /\ reqs[r].pc = "stored"
  /\ \E msg \in StoreErrors :
       Respond(r, reqs[r].file, reqs[r].filename, uploadCatch(msg), msg)
  /\ disk' = catchDisk(disk, reqs[r].filename)
  /\ UNCHANGED <<now, records, probe>>

-----------------------------------------------------------------------------
(* GET /api/images, GET /health, the readiness probe, the clock *)

Injective(p) == \A i, j \in DOMAIN p : p[i] = p[j] => i = j

\* the order of the sort option 'created', oldest first
sortOrderAscending(a, b) == a.created <= b.created

\* the order of the sort option '-created'
sortOrder(a, b) == a.created >= b.created

\* getFullList({sort: '-created'}): the lists the store may return, every
\* record once, in the order of the sort; records with equal created come
\* in any order
getFullList ==
  LET n == Len(records) IN
  { [i \in 1..n |-> records[p[i]]] :
      p \in {q \in [1..n -> 1..n] :
               /\ Injective(q)
               /\ \A i, j \in 1..n :
                    i < j => sortOrder(records[q[i]], records[q[j]])} }

\* the catch block of the listing handler
listCatch(msg) ==
  [status |-> 500, body |-> [error |-> "Failed to fetch images", message |-> msg]]

Output(endpoint, status, body, list) ==
  [endpoint |-> endpoint, req |-> 0, file |-> NoFile, filename |-> <<>>,
   status |-> status, body |-> body, list |-> list, thrown |-> ""]

ListImages ==
  /\ \/ \E l \in getFullList :
          lastResp' = Output("/api/images", 200, NoBody, l)
     \/ \E msg \in StoreErrors :
          lastResp' = Output("/api/images", listCatch(msg).status,
                             listCatch(msg).body, <<>>)
  /\ UNCHANGED <<now, reqs, disk, records, probe>>

Health ==
  /\ lastResp' = Output("/health", 200, [status |-> "ok"], <<>>)
  /\ UNCHANGED <<now, reqs, disk, records, probe>>

\* the setTimeout callback: one getFullList({limit: 1}), then a log line
ReadinessProbe ==
  /\ probe = "pending"
  /\ probe' = "fired"
  /\ \/ lastResp' = Output("probe", 0,
                      [log |-> "PocketBase images collection is ready"], <<>>)
     \/ \E msg \in StoreErrors :
          lastResp' = Output("probe", 0, [warn |-> msg], <<>>)
  /\ UNCHANGED <<now, reqs, disk, records>>

\* a millisecond passes
Tick ==
  /\ now < MaxClock
  /\ now' = now + 1
  /\ lastResp' = NoOutput
  /\ UNCHANGED <<reqs, disk, records, probe>>

Next ==
  \/ \E r \in Reqs : NoFileUploaded(r)
  \/ \E r \in Reqs : FilterReject(r)
  \/ \E r \in Reqs : FilterAccept(r)
  \/ \E r \in Reqs : StreamDone(r)
  \/ \E r \in Reqs : StreamLimit(r)
  \/ \E r \in Reqs : StreamError(r)
  \/ \E r \in Reqs : RemoveUploaded(r)
  \/ \E r \in Reqs : UploadOk(r)
  \/ \E r \in Reqs : UploadFail(r)
  \/ ListImages
  \/ Health
  \/ ReadinessProbe
  \/ Tick

Spec == Init /\ [][Next]_vars

-----------------------------------------------------------------------------
(* Vocabulary of the properties *)

InFlight(r) == reqs[r].pc \in {"streaming", "aborting", "stored"}

\* the step just taken completed a POST /upload that carried a file part
UploadAnswered == lastResp.endpoint = "/upload" /\ lastResp.file.present

\* the files on disk that the stream of request r wrote
FilesOf(r) == {e \in disk : e.writer = r}

\* the client files a body on disk can come from (the bodies of the
\* client files are pairwise different)
SourcesOf(e) == {f \in ClientFiles : f.bytes = e.bytes}

\* the client files a record can come from (so are their names)
UploadsOf(rec) == {f \in ClientFiles : f.originalname = rec.name}

\* the response is the page of Express's final handler with this message
IsFinalHandler(msg) ==
  lastResp.status = 500 /\ lastResp.body = [html |-> msg]

\* the response reports a failed disk write
IsDiskError ==
  \E msg \in DiskErrors : lastResp.body = [html |-> msg]

RecordSet == {records[i] : i \in 1..Len(records)}

-----------------------------------------------------------------------------
(* Properties *)

\* C1: an upload whose declared MIME type is outside the allow-list (an
\* absent type included) is rejected by the filter before any byte is
\* stored: no request with such a file ever gets past the filter, no file
\* on disk ever holds the body of such a file, no record ever carries such
\* a type, and when the request is answered (with the filter's error) no
\* file written by it exists.
C1_FilterRejectsBeforeStoring ==
  /\ \A r \in Reqs : InFlight(r) => reqs[r].file.mimetype \in allowedTypes
  /\ \A e \in disk : \A f \in SourcesOf(e) : f.mimetype \in allowedTypes
  /\ \A rec \in RecordSet : rec.mime_type \in allowedTypes
  /\ (UploadAnswered /\ lastResp.file.mimetype \notin allowedTypes) =>
       /\ IsFinalHandler("Invalid file type. Only JPG, PNG, and GIF are allowed.")
       /\ FilesOf(lastResp.req) = {}
       /\ lastResp.filename = <<>>

\* C1 witness: a text/plain upload has just been answered while files and
\* records of other uploads exist
C1_Witness ==
  /\ UploadAnswered
  /\ lastResp.file.mimetype = "text/plain"
  /\ disk # {}
  /\ records # <<>>

C3_AcceptedUpload ==
  /\ ( /\ UploadAnswered
       /\ lastResp.file.mimetype \in allowedTypes
       /\ lastResp.file.size <= MAX_FILE_SIZE
       /\ ~IsDiskError
       /\ lastResp.thrown = "" ) => lastResp.status = 200
  /\ (lastResp.endpoint = "/upload" /\ lastResp.status = 200) =>
       /\ lastResp.body.data \in RecordSet
       /\ lastResp.body.data.name = lastResp.file.originalname
       /\ lastResp.body.data.mime_type = lastResp.file.mimetype
       /\ lastResp.body.data.location = UploadsPrefix \o lastResp.filename
       /\ extname(lastResp.filename) = extname(lastResp.file.originalname)
       /\ \E e \in disk :
            /\ e.name = lastResp.filename
            /\ e.bytes = lastResp.file.bytes
            /\ e.len = lastResp.file.size

\* C4: when the uploaded file is on disk and create throws, the handler
\* leaves the upload directory and the collection as they are (the file
\* stays, no record is added) and answers 500 with the store's message.
C4_NoRollback ==
  [][ (lastResp'.endpoint = "/upload" /\ lastResp'.thrown # "") =>
        /\ reqs[lastResp'.req].pc = "stored"
        /\ disk' = disk
        /\ records' = records
        /\ lastResp'.status = 500
        /\ lastResp'.body = [error |-> "Failed to upload image",
                             message |-> lastResp'.thrown] ]_vars

\* C4 witness: create has just thrown; the file the request wrote is on
\* disk and no record has its location
C4_Witness ==
  /\ UploadAnswered
  /\ lastResp.thrown # ""
  /\ \E e \in FilesOf(lastResp.req) :
       /\ e.name = lastResp.filename
       /\ e.len = lastResp.file.size
  /\ \A rec \in RecordSet : rec.location # filePath(lastResp.filename)

\* C5: a GET /api/images answered 200 returns every record of the
\* collection once and nothing else, a record with a later created before
\* one with an earlier created; on an empty collection it returns the
\* empty array.
C5_ListNewestFirst ==
  (lastResp.endpoint = "/api/images" /\ lastResp.status = 200) =>
    /\ Len(lastResp.list) = Len(records)
    /\ {lastResp.list[i] : i \in 1..Len(lastResp.list)} = RecordSet
    /\ \A i, j \in 1..Len(lastResp.list) :
         lastResp.list[i].created > lastResp.list[j].created => i < j
    /\ records = <<>> => lastResp.list = <<>>

\* C5 witness: a listing of two records created in different milliseconds
C5_Witness ==
  /\ lastResp.endpoint = "/api/images"
  /\ lastResp.status = 200
  /\ Len(lastResp.list) = 2
  /\ lastResp.list[1].created > lastResp.list[2].created

\* C6: an upload whose file has a MIME type outside the allow-list is
\* answered with a status of the 400 class.
C6_FilterRejectIs400 ==
  (UploadAnswered /\ lastResp.file.mimetype \notin allowedTypes) =>
    lastResp.status \in 400..499

\* C7: every failing request is answered with a payload that has an error
\* field and a message field.
C7_ErrorShape ==
  lastResp.status >= 400 => {"error", "message"} \subseteq DOMAIN lastResp.body

\* C8: in every reachable state each record has a location at which a
\* file exists in the upload directory, an allow-listed mime_type, and
\* comes from a file within the size ceiling.
C8_RecordHasFile ==
  \A rec \in RecordSet :
    /\ \E e \in disk : filePath(e.name) = rec.location
    /\ rec.mime_type \in allowedTypes
    /\ \A f \in UploadsOf(rec) : f.size <= MAX_FILE_SIZE

\* C9: no step changes or removes a record; a step adds at most one
\* record, and the step that adds one is the answer 200 of a POST /upload
\* that returns that record.
C9_RecordsOnlyGrow ==
  [][ /\ Len(records') >= Len(records)
      /\ SubSeq(records', 1, Len(records)) = records
      /\ records' # records =>
           /\ Len(records') = Len(records) + 1
           /\ lastResp'.endpoint = "/upload"
           /\ lastResp'.status = 200
           /\ lastResp'.body.data = records'[Len(records')] ]_vars

\* C9 witness: the probe has fired and a listing was answered while the
\* collection holds records and an upload has failed at create
C9_Witness ==
  /\ probe = "fired"
  /\ lastResp.endpoint = "/api/images"
  /\ Len(records) >= 1
  /\ \E r \in Reqs : reqs[r].pc = "done"

\* C10: two uploads in flight at the same time never have the same
\* storage name, and no two records share a location.
C10_DistinctPaths ==
  /\ \A r1, r2 \in Reqs :
       (r1 # r2 /\ InFlight(r1) /\ InFlight(r2)) =>
         reqs[r1].filename # reqs[r2].filename
  /\ \A i, j \in 1..Len(records) :
       i # j => records[i].location # records[j].location

====
